---- MODULE Spec2Model ----
(***************************************************************************)
(* TradeSense trading API (backend/flask_trading.py, backend/flask_models). *)
(* The database holds the challenges and trades tables; the handlers        *)
(* create_challenge, execute_trade and close_trade read and write them.     *)
(*                                                                          *)
(* Money is held in whole currency units and profit_percent in              *)
(* 1/PercentScale of a percent, so that every division the code makes is    *)
(* exact on the inputs drawn here (the float comparisons of the code agree  *)
(* with the integer ones on this grid).  SpecDouble follows the settlement  *)
(* in the binary64 arithmetic of the Float columns instead, where sums      *)
(* round.                                                                   *)
(*                                                                          *)
(* The user deletion service (backend/deleteUser.py) is a separate program: *)
(* base44 is the entity store it talks to and deletion is its delete_user   *)
(* request.                                                                 *)
(***************************************************************************)
EXTENDS Integers, Sequences, FiniteSets, TLC

VARIABLES challenges, trades, reqs, base44, deletion

vars == <<challenges, trades, reqs, base44, deletion>>

----------------------------------------------------------------------------
(* Bounds of the model *)

(* the rows that the challenges and trades tables hold together *)
MaxRows == 4
(* the requests served at the same time *)
MaxReqs == 2

(* profit_percent is stored in units of 1/PercentScale percent *)
PercentScale == 10

----------------------------------------------------------------------------
(* Inputs of the requests *)

Users == {1, 2}

(* create_challenge requests: <<user, tier, payment_method>> *)
ChallengeInputs ==
    {<<1, "starter", "paypal">>, <<1, "PRO", "cmi">>,
     <<2, "elite", "crypto">>, <<2, "vip", "paypal">>}

(* execute_trade requests: <<symbol, type, quantity, entry_price>> *)
TradeInputs ==
    {<<"aapl", "buy", 10, 100>>, <<"aapl", "SELL", 100, 100>>,
     <<"aapl", "buy", 1000, 100>>,
     <<"aapl", "hold", 10, 100>>, <<"aapl", "buy", 0, 100>>,
     <<"aapl", "sell", 10, 0>>}

(* close_trade requests: exit_price *)
ExitPriceInputs == {0, 50, 200}

(* the ids a request names: those of the rows and one that has no row *)
ChallengeIds == 1..(Len(challenges) + 1)
TradeIds == 1..(Len(trades) + 1)

----------------------------------------------------------------------------
(* Optional column values: NULL is the empty tuple *)

None == << >>
Some(v) == <<v>>

Max(a, b) == IF a >= b THEN a ELSE b

(* str.lower() on the request strings *)
Lower(s) ==
    CASE s = "PRO" -> "pro"
      [] s = "SELL" -> "sell"
      [] OTHER -> s

(* str.upper() on the symbol *)
Upper(s) ==
    CASE s = "aapl" -> "AAPL"
      [] OTHER -> s

----------------------------------------------------------------------------
(* Tier configurations *)

TIER_CONFIG ==
    [starter |-> [initial_balance |-> 10000, price |-> 99,
                  max_daily_loss_percent |-> 5,
                  max_total_loss_percent |-> 10,
                  profit_target_percent |-> 10],
     pro     |-> [initial_balance |-> 50000, price |-> 299,
                  max_daily_loss_percent |-> 5,
                  max_total_loss_percent |-> 10,
                  profit_target_percent |-> 10],
     elite   |-> [initial_balance |-> 100000, price |-> 599,
                  max_daily_loss_percent |-> 5,
                  max_total_loss_percent |-> 10,
                  profit_target_percent |-> 10]]

----------------------------------------------------------------------------
(* Rows *)

(* NewChallenge with daily_start_balance left at zero *)
NewChallenge_NoDailyStart(user_id, tier, payment_method) ==
    LET config == TIER_CONFIG[tier]
        initial_balance == config.initial_balance
    IN  [user_id |-> user_id,
         tier |-> tier,
         initial_balance |-> initial_balance,
         current_balance |-> initial_balance,
         highest_balance |-> initial_balance,
         daily_start_balance |-> 0,
         status |-> "active",
         fail_reason |-> None,
         profit_percent |-> 0,
         payment_method |-> payment_method,
         amount_paid |-> config.price]

(* Challenge(...) as built by create_challenge, with the column defaults *)
NewChallenge(user_id, tier, payment_method) ==
    LET config == TIER_CONFIG[tier]
        initial_balance == config.initial_balance
    IN  [user_id |-> user_id,
         tier |-> tier,
         initial_balance |-> initial_balance,
         current_balance |-> initial_balance,
         highest_balance |-> initial_balance,
         daily_start_balance |-> initial_balance,
         status |-> "active",
         fail_reason |-> None,
         profit_percent |-> 0,
         payment_method |-> payment_method,
         amount_paid |-> config.price]

(* Trade(...) as built by execute_trade, with the column defaults *)
NewTrade(challenge_id, user_id, symbol, trade_type, quantity, entry_price) ==
    [challenge_id |-> challenge_id,
     user_id |-> user_id,
     symbol |-> symbol,
     type |-> trade_type,
     quantity |-> quantity,
     entry_price |-> entry_price,
     exit_price |-> None,
     profit_loss |-> None,
     status |-> "open"]

(* Challenge.query.filter_by(id=challenge_id, user_id=user_id).first() *)
FindChallenge(challenge_id, user_id) ==
    IF challenge_id \in DOMAIN challenges
       /\ challenges[challenge_id].user_id = user_id
    THEN Some(challenges[challenge_id])
    ELSE None

(* FindTrade that looks the trade up by id alone *)
FindTrade_AnyOwner(trade_id, user_id) ==
    IF trade_id \in DOMAIN trades
    THEN Some(trades[trade_id])
    ELSE None

(* Trade.query.filter_by(id=trade_id, user_id=user_id).first() *)
FindTrade(trade_id, user_id) ==
    IF trade_id \in DOMAIN trades /\ trades[trade_id].user_id = user_id
    THEN Some(trades[trade_id])
    ELSE None

(* The session's flush: an UPDATE sets the columns whose value in the      *)
(* session differs from the value that was loaded.                         *)
Flush(row, loaded, local) ==
    [f \in DOMAIN row |-> IF local[f] # loaded[f] THEN local[f] ELSE row[f]]

----------------------------------------------------------------------------
(* close_trade: settlement and the challenge rules *)

(* ProfitLoss that treats a sell as a buy *)
ProfitLoss_SellAsBuy(trade, exit_price) ==
    (exit_price - trade.entry_price) * trade.quantity

(* Calculate profit/loss *)
ProfitLoss(trade, exit_price) ==
    IF trade.type = "buy"
    THEN (exit_price - trade.entry_price) * trade.quantity
    ELSE (trade.entry_price - exit_price) * trade.quantity

(* SettleTrade that also overwrites entry_price with the exit price *)
SettleTrade_MovesEntry(trade, exit_price) ==
    [trade EXCEPT !.entry_price = exit_price,
                  !.exit_price = Some(exit_price),
                  !.profit_loss = Some(ProfitLoss(trade, exit_price)),
                  !.status = "closed"]

(* Update trade *)
SettleTrade(trade, exit_price) ==
    [trade EXCEPT !.exit_price = Some(exit_price),
                  !.profit_loss = Some(ProfitLoss(trade, exit_price)),
                  !.status = "closed"]

(* ((current_balance - initial_balance) / initial_balance) * 100 *)
ProfitPercent(current_balance, initial_balance) ==
    ((current_balance - initial_balance) * 100 * PercentScale)
        \div initial_balance

(* UpdateBalance that leaves highest_balance alone *)
UpdateBalance_NoHighest(challenge, profit_loss) ==
    LET current_balance == challenge.current_balance + profit_loss
    IN  [challenge EXCEPT
            !.current_balance = current_balance,
            !.profit_percent =
                ProfitPercent(current_balance, challenge.initial_balance)]

(* UpdateBalance that takes the higher of the balance before and after the
   settlement as highest_balance, forgetting the highest so far *)
UpdateBalance_HighestFollows(challenge, profit_loss) ==
    LET current_balance == challenge.current_balance + profit_loss
    IN  [challenge EXCEPT
            !.current_balance = current_balance,
            !.highest_balance =
                Max(challenge.current_balance, current_balance),
            !.profit_percent =
                ProfitPercent(current_balance, challenge.initial_balance)]

(* UpdateBalance that does not recompute profit_percent *)
UpdateBalance_StalePercent(challenge, profit_loss) ==
    LET current_balance == challenge.current_balance + profit_loss
    IN  [challenge EXCEPT
            !.current_balance = current_balance,
            !.highest_balance = Max(challenge.highest_balance, current_balance)]

(* UpdateBalance that restarts the day at the settled balance *)
UpdateBalance_ResetsDailyStart(challenge, profit_loss) ==
    LET current_balance == challenge.current_balance + profit_loss
    IN  [challenge EXCEPT
            !.current_balance = current_balance,
            !.highest_balance = Max(challenge.highest_balance, current_balance),
            !.daily_start_balance = current_balance,
            !.profit_percent =
                ProfitPercent(current_balance, challenge.initial_balance)]

(* Update challenge balance, calculate profit percentage *)
UpdateBalance(challenge, profit_loss) ==
    LET current_balance == challenge.current_balance + profit_loss
    IN  [challenge EXCEPT
            !.current_balance = current_balance,
            !.highest_balance = Max(challenge.highest_balance, current_balance),
            !.profit_percent =
                ProfitPercent(current_balance, challenge.initial_balance)]

FailReason(percent, limit) ==
    "Exceeded " \o ToString(percent) \o "% " \o limit \o " loss limit"

(* DailyLossExceeded with a strict comparison *)
DailyLossExceeded_Strict(challenge, config) ==
    (challenge.daily_start_balance - challenge.current_balance) * 100
        > challenge.daily_start_balance * config.max_daily_loss_percent

(* daily_loss >= max_daily_loss, with max_daily_loss =                     *)
(* daily_start_balance * (max_daily_loss_percent / 100)                    *)
DailyLossExceeded(challenge, config) ==
    (challenge.daily_start_balance - challenge.current_balance) * 100
        >= challenge.daily_start_balance * config.max_daily_loss_percent

(* Check daily loss limit (5%) *)
CheckDailyLoss(challenge, config) ==
    IF DailyLossExceeded(challenge, config)
    THEN [challenge EXCEPT
            !.status = "failed",
            !.fail_reason =
                Some(FailReason(config.max_daily_loss_percent, "daily"))]
    ELSE challenge

(* total_loss >= max_total_loss, with max_total_loss =                     *)
(* initial_balance * (max_total_loss_percent / 100)                        *)
TotalLossExceeded(challenge, config) ==
    (challenge.initial_balance - challenge.current_balance) * 100
        >= challenge.initial_balance * config.max_total_loss_percent

(* Check total loss limit (10%) *)
CheckTotalLoss(challenge, config) ==
    IF TotalLossExceeded(challenge, config)
    THEN [challenge EXCEPT
            !.status = "failed",
            !.fail_reason =
                Some(FailReason(config.max_total_loss_percent, "total"))]
    ELSE challenge

(* challenge.profit_percent >= config['profit_target_percent'] *)
ProfitTargetReached(challenge, config) ==
    challenge.profit_percent >= config.profit_target_percent * PercentScale

(* CheckProfitTarget that does not pass a failed challenge *)
CheckProfitTarget_KeepFailed(challenge, config) ==
    IF ProfitTargetReached(challenge, config) /\ challenge.status # "failed"
    THEN [challenge EXCEPT !.status = "passed"]
    ELSE challenge

(* Check profit target (10%) *)
CheckProfitTarget(challenge, config) ==
    IF ProfitTargetReached(challenge, config)
    THEN [challenge EXCEPT !.status = "passed"]
    ELSE challenge

(* CheckRules with the daily-loss check after the total-loss check *)
CheckRules_DailyLast(challenge) ==
    LET config == TIER_CONFIG[challenge.tier]
    IN  CheckProfitTarget(
            CheckDailyLoss(CheckTotalLoss(challenge, config), config),
            config)

(* CheckRules that decides the status afresh from the balances *)
CheckRules_FromScratch(challenge) ==
    LET config == TIER_CONFIG[challenge.tier]
        fresh == [challenge EXCEPT !.status = "active", !.fail_reason = None]
    IN  CheckProfitTarget(
            CheckTotalLoss(CheckDailyLoss(fresh, config), config),
            config)

(* Check challenge rules *)
CheckRules(challenge) ==
    LET config == TIER_CONFIG[challenge.tier]
    IN  CheckProfitTarget(
            CheckTotalLoss(CheckDailyLoss(challenge, config), config),
            config)

(* SettleChallenge that leaves a passed or failed challenge alone *)
SettleChallenge_SkipTerminal(challenge, profit_loss) ==
    IF challenge.status # "active"
    THEN challenge
    ELSE CheckRules(UpdateBalance(challenge, profit_loss))

(* The challenge of the session after close_trade's lines 209-238 *)
SettleChallenge(challenge, profit_loss) ==
    CheckRules(UpdateBalance(challenge, profit_loss))

----------------------------------------------------------------------------
(* The checks the handlers make before they write *)

(* ChallengeActive that lets every challenge through *)
ChallengeActive_Always(challenge) ==
    challenge.status \in {"active", "passed", "failed"}

(* challenge.status != 'active' is refused: line 144 *)
ChallengeActive(challenge) ==
    challenge.status = "active"

(* InsufficientBalance that also refuses a trade worth the whole balance *)
InsufficientBalance_Inclusive(trade_value, challenge) ==
    trade_value >= challenge.current_balance

(* trade_value > challenge.current_balance: line 151 *)
InsufficientBalance(trade_value, challenge) ==
    trade_value > challenge.current_balance

(* InvalidExitPrice that lets a price of zero through *)
InvalidExitPrice_Negative(exit_price) ==
    exit_price < 0

(* exit_price <= 0: line 186 *)
InvalidExitPrice(exit_price) ==
    exit_price <= 0

(* TradeOpen that lets a closed trade through *)
TradeOpen_Always(trade) ==
    trade.status \in {"open", "closed"}

(* trade.status != 'open' is refused: line 195 *)
TradeOpen(trade) ==
    trade.status = "open"

----------------------------------------------------------------------------
(* The handlers, as functions of the database and the request.  A result   *)
(* carries the response and the tables after the commit (or unchanged).    *)

Response(code, msg, chs, trs) ==
    [code |-> code, msg |-> msg, challenges |-> chs, trades |-> trs]

(* create_challenge that stores the tier as the request spelled it *)
create_challenge_StoresInput(user_id, tier_input, payment_method) ==
    LET tier == Lower(tier_input)
    IN  IF tier \notin DOMAIN TIER_CONFIG
        THEN Response(400, "Invalid tier. Must be starter, pro, or elite",
                      challenges, trades)
        ELSE Response(201, "Challenge created successfully",
                      Append(challenges,
                             [NewChallenge(user_id, tier, payment_method)
                                 EXCEPT !.tier = tier_input]),
                      trades)

(* create_challenge that falls back to the starter tier *)
create_challenge_DefaultTier(user_id, tier_input, payment_method) ==
    LET lowered == Lower(tier_input)
        tier == IF lowered \in DOMAIN TIER_CONFIG THEN lowered ELSE "starter"
    IN  Response(201, "Challenge created successfully",
                 Append(challenges,
                        NewChallenge(user_id, tier, payment_method)),
                 trades)

create_challenge(user_id, tier_input, payment_method) ==
    LET tier == Lower(tier_input)
    IN  IF tier \notin DOMAIN TIER_CONFIG
        THEN Response(400, "Invalid tier. Must be starter, pro, or elite",
                      challenges, trades)
        ELSE Response(201, "Challenge created successfully",
                      Append(challenges,
                             NewChallenge(user_id, tier, payment_method)),
                      trades)

(* execute_trade that takes the trade value out of current_balance *)
execute_trade_Reserves(user_id, challenge_id, symbol_input, type_input, quantity, entry_price) ==
    LET symbol == Upper(symbol_input)
        trade_type == Lower(type_input)
        found == FindChallenge(challenge_id, user_id)
    IN  IF trade_type \notin {"buy", "sell"}
        THEN Response(400, "Trade type must be buy or sell",
                      challenges, trades)
        ELSE IF quantity <= 0 \/ entry_price <= 0
        THEN Response(400, "Invalid quantity or price", challenges, trades)
        ELSE IF found = None
        THEN Response(404, "Challenge not found", challenges, trades)
        ELSE IF ~ChallengeActive(found[1])
        THEN Response(400, "Challenge is not active", challenges, trades)
        ELSE IF InsufficientBalance(quantity * entry_price, found[1])
        THEN Response(400, "Insufficient balance", challenges, trades)
        ELSE Response(201, "Trade executed successfully",
                      [challenges EXCEPT ![challenge_id].current_balance =
                          @ - quantity * entry_price],
                      Append(trades,
                             NewTrade(challenge_id, user_id, symbol,
                                      trade_type, quantity, entry_price)))

execute_trade(user_id, challenge_id, symbol_input, type_input, quantity, entry_price) ==
    LET symbol == Upper(symbol_input)
        trade_type == Lower(type_input)
        found == FindChallenge(challenge_id, user_id)
    IN  IF trade_type \notin {"buy", "sell"}
        THEN Response(400, "Trade type must be buy or sell",
                      challenges, trades)
        ELSE IF quantity <= 0 \/ entry_price <= 0
        THEN Response(400, "Invalid quantity or price", challenges, trades)
        ELSE IF found = None
        THEN Response(404, "Challenge not found", challenges, trades)
        ELSE IF ~ChallengeActive(found[1])
        THEN Response(400, "Challenge is not active", challenges, trades)
        ELSE IF InsufficientBalance(quantity * entry_price, found[1])
        THEN Response(400, "Insufficient balance", challenges, trades)
        ELSE Response(201, "Trade executed successfully", challenges,
                      Append(trades,
                             NewTrade(challenge_id, user_id, symbol,
                                      trade_type, quantity, entry_price)))

close_trade(user_id, trade_id, exit_price) ==
    LET found == FindTrade(trade_id, user_id)
    IN  IF InvalidExitPrice(exit_price)
        THEN Response(400, "Invalid exit price", challenges, trades)
        ELSE IF found = None
        THEN Response(404, "Trade not found", challenges, trades)
        ELSE IF ~TradeOpen(found[1])
        THEN Response(400, "Trade is already closed", challenges, trades)
        ELSE LET trade == found[1]
                 settled == SettleTrade(trade, exit_price)
                 cid == trade.challenge_id
                 challenge == challenges[cid]
                 evaluated ==
                     SettleChallenge(challenge, settled.profit_loss[1])
             IN  Response(200, "Trade closed successfully",
                     [challenges EXCEPT
                         ![cid] = Flush(challenges[cid], challenge, evaluated)],
                     [trades EXCEPT
                         ![trade_id] = Flush(trades[trade_id], trade, settled)])

----------------------------------------------------------------------------
(* Requests served one at a time *)

NoReqs == [r \in 1..MaxReqs |-> [pc |-> "idle"]]

(* The deletion service is not part of the trading API: its store is      *)
(* empty and its request idle in the specifications of the trading API.    *)
NoEntities == [users |-> {}, challenges |-> {}, trades |-> {}, posts |-> {}]

NoDeletion == [pc |-> "idle"]

Init ==
    /\ challenges = << >>
    /\ trades = << >>
    /\ reqs = NoReqs
    /\ base44 = NoEntities
    /\ deletion = NoDeletion

CreateChallenge ==
    \E input \in ChallengeInputs :
        LET res == create_challenge(input[1], input[2], input[3])
        IN  /\ Len(res.challenges) + Len(res.trades) <= MaxRows
            /\ challenges' = res.challenges
            /\ trades' = res.trades
            /\ UNCHANGED <<reqs, base44, deletion>>

ExecuteTrade ==
    \E user_id \in Users, challenge_id \in ChallengeIds,
       input \in TradeInputs :
        LET res == execute_trade(user_id, challenge_id, input[1], input[2],
                                 input[3], input[4])
        IN  /\ Len(res.challenges) + Len(res.trades) <= MaxRows
            /\ challenges' = res.challenges
            /\ trades' = res.trades
            /\ UNCHANGED <<reqs, base44, deletion>>

CloseTrade ==
    \E user_id \in Users, trade_id \in TradeIds,
       exit_price \in ExitPriceInputs :
        LET res == close_trade(user_id, trade_id, exit_price)
        IN  /\ challenges' = res.challenges
            /\ trades' = res.trades
            /\ UNCHANGED <<reqs, base44, deletion>>

Next == CreateChallenge \/ ExecuteTrade \/ CloseTrade

Spec == Init /\ [][Next]_vars

----------------------------------------------------------------------------
(* Requests served concurrently, each in its own session and transaction   *)
(* (READ COMMITTED): a handler is a SELECT per row it loads and one commit  *)
(* that flushes its UPDATEs or INSERT.  reqs[r] is the handler running in   *)
(* worker r: its position and the rows its session holds.                   *)

ConcChallengeInputs == {<<1, "starter", "paypal">>, <<2, "vip", "paypal">>}

ConcTradeInputs ==
    {<<"aapl", "buy", 10, 100>>, <<"aapl", "hold", 10, 100>>}

Workers == 1..MaxReqs

(* The users whose requests overlap *)
ConcUsers == {1}

(* A new request goes to the first free worker *)
FirstFree(r) ==
    /\ reqs[r].pc = "idle"
    /\ \A q \in Workers : q < r => reqs[q].pc # "idle"

(* The response is sent and the worker is free for the next request *)
Idle == [pc |-> "idle"]

(* Trades that execute_trade handlers have added but not yet committed *)
PendingTrades == Cardinality({r \in Workers : reqs[r].pc = "trade_added"})

ConcCreateChallenge ==
    \E input \in ConcChallengeInputs :
        LET res == create_challenge(input[1], input[2], input[3])
        IN  /\ Len(res.challenges) + Len(res.trades) <= MaxRows
            /\ challenges' = res.challenges
            /\ trades' = res.trades
            /\ UNCHANGED <<reqs, base44, deletion>>

(* execute_trade up to db.session.add(trade): lines 122-164 *)
BeginExecuteTrade(r) ==
    /\ FirstFree(r)
    /\ \E user_id \in ConcUsers, challenge_id \in ChallengeIds,
          input \in ConcTradeInputs :
        LET res == execute_trade(user_id, challenge_id, input[1], input[2],
                                 input[3], input[4])
        IN  /\ Len(challenges) + Len(trades) + PendingTrades < MaxRows
            /\ reqs' = [reqs EXCEPT ![r] =
                    IF res.code # 201
                    THEN Idle
                    ELSE [pc |-> "trade_added", op |-> "execute_trade",
                          trade |-> res.trades[Len(res.trades)]]]
            /\ UNCHANGED <<challenges, trades, base44, deletion>>

(* execute_trade's db.session.commit(): line 165 *)
CommitExecuteTrade(r) ==
    /\ reqs[r].pc = "trade_added"
    /\ trades' = Append(trades, reqs[r].trade)
    /\ reqs' = [reqs EXCEPT ![r] = Idle]
    /\ UNCHANGED <<challenges, base44, deletion>>

(* close_trade up to the load of the trade: lines 182-196 *)
BeginCloseTrade(r) ==
    /\ FirstFree(r)
    /\ \E user_id \in ConcUsers, trade_id \in TradeIds,
          exit_price \in ExitPriceInputs :
        LET res == close_trade(user_id, trade_id, exit_price)
        IN  /\ reqs' = [reqs EXCEPT ![r] =
                    IF res.code # 200
                    THEN Idle
                    ELSE [pc |-> "trade_loaded", op |-> "close_trade",
                          trade_id |-> trade_id, exit_price |-> exit_price,
                          trade |-> trades[trade_id]]]
            /\ UNCHANGED <<challenges, trades, base44, deletion>>

(* close_trade's lazy load of trade.challenge: line 210 *)
LoadChallenge(r) ==
    /\ reqs[r].pc = "trade_loaded"
    /\ reqs' = [reqs EXCEPT ![r] =
            [pc |-> "challenge_loaded", op |-> "close_trade",
             trade_id |-> reqs[r].trade_id,
             exit_price |-> reqs[r].exit_price,
             trade |-> reqs[r].trade,
             challenge |-> challenges[reqs[r].trade.challenge_id]]]
    /\ UNCHANGED <<challenges, trades, base44, deletion>>

(* CommitCloseTrade whose UPDATE of the challenge selects by owner *)
CommitCloseTrade_ByOwner(r) ==
    /\ reqs[r].pc = "challenge_loaded"
    /\ LET req == reqs[r]
           settled == SettleTrade(req.trade, req.exit_price)
           evaluated == SettleChallenge(req.challenge, settled.profit_loss[1])
       IN  /\ trades' = [trades EXCEPT
                   ![req.trade_id] = Flush(trades[req.trade_id], req.trade, settled)]
           /\ challenges' = [c \in DOMAIN challenges |->
                   IF challenges[c].user_id = req.challenge.user_id
                   THEN Flush(challenges[c], req.challenge, evaluated)
                   ELSE challenges[c]]
           /\ reqs' = [reqs EXCEPT ![r] = Idle]
           /\ UNCHANGED <<base44, deletion>>

(* close_trade's db.session.commit(): the session's trade and challenge,   *)
(* changed by lines 198-238, are flushed over the committed rows: line 240 *)
CommitCloseTrade(r) ==
    /\ reqs[r].pc = "challenge_loaded"
    /\ LET req == reqs[r]
           cid == req.trade.challenge_id
           settled == SettleTrade(req.trade, req.exit_price)
           evaluated == SettleChallenge(req.challenge, settled.profit_loss[1])
       IN  /\ trades' = [trades EXCEPT
                   ![req.trade_id] = Flush(trades[req.trade_id], req.trade, settled)]
           /\ challenges' = [challenges EXCEPT
                   ![cid] = Flush(challenges[cid], req.challenge, evaluated)]
           /\ reqs' = [reqs EXCEPT ![r] = Idle]
           /\ UNCHANGED <<base44, deletion>>

NextConc ==
    \/ ConcCreateChallenge
    \/ \E r \in Workers : BeginExecuteTrade(r)
    \/ \E r \in Workers : CommitExecuteTrade(r)
    \/ \E r \in Workers : BeginCloseTrade(r)
    \/ \E r \in Workers : LoadChallenge(r)
    \/ \E r \in Workers : CommitCloseTrade(r)

SpecConc == Init /\ [][NextConc]_vars

----------------------------------------------------------------------------
(* Requests in progress on two challenges: user 1 holds two starter        *)
(* challenges and the workers open and close trades on them, one request   *)
(* at a time on each challenge.                                            *)

InitTwoChallenges ==
    /\ challenges = <<NewChallenge(1, "starter", "paypal"),
                      NewChallenge(1, "starter", "paypal")>>
    /\ trades = <<>>
    /\ reqs = [r \in Workers |-> Idle]
    /\ base44 = NoEntities
    /\ deletion = NoDeletion

(* The request that worker r starts works on another challenge than every  *)
(* request in progress: the overlaps considered are those of requests on   *)
(* different challenges.                                                   *)
OnAnotherChallenge(r) ==
    \A q \in Workers \ {r} :
        reqs'[r].pc # "idle" /\ reqs[q].pc # "idle" =>
            reqs'[r].trade.challenge_id # reqs[q].trade.challenge_id

NextTwoChallenges ==
    \/ \E r \in Workers : BeginExecuteTrade(r) /\ OnAnotherChallenge(r)
    \/ \E r \in Workers : CommitExecuteTrade(r)
    \/ \E r \in Workers : BeginCloseTrade(r) /\ OnAnotherChallenge(r)
    \/ \E r \in Workers : LoadChallenge(r)
    \/ \E r \in Workers : CommitCloseTrade(r)

SpecTwoChallenges == InitTwoChallenges /\ [][NextTwoChallenges]_vars

----------------------------------------------------------------------------
(* The user deletion service: delete_user of backend/deleteUser.py.  Every *)
(* call of the Base44 client is a step of its own; a call that is not      *)
(* answered 200 gives None, False or the empty list.                       *)

AllUsers ==
    {[id |-> "u1", email |-> "u1@mail"], [id |-> "u2", email |-> ""]}

AllChallenges ==
    {[id |-> "c1", user_email |-> "u1@mail"],
     [id |-> "c2", user_email |-> "u1@mail"]}

AllTrades ==
    {[id |-> "t1", challenge_id |-> "c1"], [id |-> "t2", challenge_id |-> "c1"],
     [id |-> "t3", challenge_id |-> "c2"]}

AllPosts == {[id |-> "p1", author_email |-> "u1@mail"]}

(* the user that get_user_from_request finds for the request *)
CallerInputs == {None, Some([role |-> "user"]), Some([role |-> "admin"])}

(* request.get_json() *)
BodyInputs ==
    {None, Some([userId |-> ""]), Some([userId |-> "u1"]),
     Some([userId |-> "u2"]), Some([userId |-> "u9"])}

(* The lists in which a filter call can return the entities of S *)
SeqsOf(S) ==
    {seq \in [1..Cardinality(S) -> S] : \A x \in S : \E i \in DOMAIN seq : seq[i] = x}

(* response.json() if response.status == 200, else [] *)
FilterResults(S) == SeqsOf(S) \cup {<< >>}

Deletion(kind, id) == [kind |-> kind, id |-> id]

(* return jsonify(...), code *)
Respond(code) == [deletion EXCEPT !.pc = "done", !.code = code]

InitDelete ==
    /\ challenges = << >>
    /\ trades = << >>
    /\ reqs = NoReqs
    /\ \E cs \in SUBSET AllChallenges :
         \E ts \in SUBSET {t \in AllTrades : \E c \in cs : t.challenge_id = c.id},
            ps \in SUBSET AllPosts :
             base44 = [users |-> AllUsers, challenges |-> cs,
                       trades |-> ts, posts |-> ps]
    /\ deletion = [pc |-> "idle", user_id |-> "", user_email |-> "",
                   admin |-> FALSE,
                   challenges |-> << >>, trades |-> << >>, posts |-> << >>,
                   issued |-> << >>, deleted_challenges |-> 0,
                   deleted_trades |-> 0, deleted_posts |-> 0, code |-> 0]

(* lines 138-153: the caller, the admin check and the request body *)
DeleteUserRequest ==
    /\ deletion.pc = "idle"
    /\ \E user \in CallerInputs, data \in BodyInputs :
         deletion' =
             IF user = None \/ user[1].role # "admin"
             THEN Respond(403)
             ELSE IF data = None
             THEN [Respond(400) EXCEPT !.admin = TRUE]
             ELSE IF data[1].userId = ""
             THEN [Respond(400) EXCEPT !.admin = TRUE]
             ELSE [deletion EXCEPT !.pc = "get_user", !.admin = TRUE,
                                   !.user_id = data[1].userId]
    /\ UNCHANGED <<challenges, trades, reqs, base44>>

(* lines 156-162: get_user and the email of the user to delete *)
GetUser ==
    /\ deletion.pc = "get_user"
    /\ \E answered \in BOOLEAN :
         LET found == {u \in base44.users : u.id = deletion.user_id}
         IN  deletion' =
                 IF ~answered \/ found = {}
                 THEN Respond(404)
                 ELSE LET user_to_delete == CHOOSE u \in found : TRUE
                      IN  IF user_to_delete.email = ""
                          THEN Respond(404)
                          ELSE [deletion EXCEPT
                                   !.pc = "filter_challenges",
                                   !.user_email = user_to_delete.email]
    /\ UNCHANGED <<challenges, trades, reqs, base44>>

(* line 170: filter_challenges *)
FilterChallenges ==
    /\ deletion.pc = "filter_challenges"
    /\ \E result \in FilterResults(
              {c \in base44.challenges : c.user_email = deletion.user_email}) :
         deletion' = [deletion EXCEPT
             !.challenges = result,
             !.pc = IF result = << >> THEN "filter_posts" ELSE "filter_trades"]
    /\ UNCHANGED <<challenges, trades, reqs, base44>>

(* line 174: filter_trades for the challenge at the head of the loop *)
FilterTrades ==
    /\ deletion.pc = "filter_trades"
    /\ \E result \in FilterResults(
              {t \in base44.trades :
                  t.challenge_id = Head(deletion.challenges).id}) :
         deletion' = [deletion EXCEPT !.trades = result, !.pc = "delete_trades"]
    /\ UNCHANGED <<challenges, trades, reqs, base44>>

(* lines 175-178: delete_trade *)
DeleteTrade ==
    /\ deletion.pc = "delete_trades"
    /\ deletion.trades # << >>
    /\ \E success \in BOOLEAN :
         LET trade == Head(deletion.trades)
         IN  /\ deletion' = [deletion EXCEPT
                    !.trades = Tail(@),
                    !.issued = Append(@, Deletion("trade", trade.id)),
                    !.deleted_trades = IF success THEN @ + 1 ELSE @]
             /\ base44' = IF success
                          THEN [base44 EXCEPT !.trades = @ \ {trade}]
                          ELSE base44
    /\ UNCHANGED <<challenges, trades, reqs>>

(* lines 181-183: delete_challenge, once the trades of the list are done *)
DeleteChallenge ==
    /\ deletion.pc = "delete_trades"
    /\ deletion.trades = << >>
    /\ \E success \in BOOLEAN :
         LET challenge == Head(deletion.challenges)
         IN  /\ deletion' = [deletion EXCEPT
                    !.challenges = Tail(@),
                    !.issued = Append(@, Deletion("challenge", challenge.id)),
                    !.deleted_challenges = IF success THEN @ + 1 ELSE @,
                    !.pc = IF Tail(deletion.challenges) = << >>
                           THEN "filter_posts" ELSE "filter_trades"]
             /\ base44' = IF success
                          THEN [base44 EXCEPT !.challenges = @ \ {challenge}]
                          ELSE base44
    /\ UNCHANGED <<challenges, trades, reqs>>

(* line 186: filter_community_posts *)
FilterCommunityPosts ==
    /\ deletion.pc = "filter_posts"
    /\ \E result \in FilterResults(
              {post \in base44.posts : post.author_email = deletion.user_email}) :
         deletion' = [deletion EXCEPT !.posts = result, !.pc = "delete_posts"]
    /\ UNCHANGED <<challenges, trades, reqs, base44>>

(* lines 187-190: delete_community_post *)
DeleteCommunityPost ==
    /\ deletion.pc = "delete_posts"
    /\ deletion.posts # << >>
    /\ \E success \in BOOLEAN :
         LET post == Head(deletion.posts)
         IN  /\ deletion' = [deletion EXCEPT
                    !.posts = Tail(@),
                    !.issued = Append(@, Deletion("post", post.id)),
                    !.deleted_posts = IF success THEN @ + 1 ELSE @]
             /\ base44' = IF success
                          THEN [base44 EXCEPT !.posts = @ \ {post}]
                          ELSE base44
    /\ UNCHANGED <<challenges, trades, reqs>>

(* lines 193-208: delete_user and the answer *)
DeleteUser ==
    /\ deletion.pc = "delete_posts"
    /\ deletion.posts = << >>
    /\ \E user_deleted \in BOOLEAN :
         /\ deletion' = [Respond(IF user_deleted THEN 200 ELSE 500) EXCEPT
                !.issued = Append(@, Deletion("user", deletion.user_id))]
         /\ base44' = IF user_deleted
                      THEN [base44 EXCEPT !.users =
                               {u \in @ : u.id # deletion.user_id}]
                      ELSE base44
    /\ UNCHANGED <<challenges, trades, reqs>>

(* lines 220-224: a call of the client raises and the handler answers 500 *)
RequestRaises ==
    /\ deletion.pc \notin {"idle", "done"}
    /\ deletion' = Respond(500)
    /\ UNCHANGED <<challenges, trades, reqs, base44>>

NextDelete ==
    \/ DeleteUserRequest
    \/ GetUser
    \/ FilterChallenges
    \/ FilterTrades
    \/ DeleteTrade
    \/ DeleteChallenge
    \/ FilterCommunityPosts
    \/ DeleteCommunityPost
    \/ DeleteUser
    \/ RequestRaises

SpecDelete == InitDelete /\ [][NextDelete]_vars

----------------------------------------------------------------------------
(* The arithmetic of the columns.  The money columns of Challenge and      *)
(* Trade are db.Float, and Python computes on them in IEEE 754 binary64.   *)
(* A double of integral value v is the pair <<hi, lo>> with                *)
(* v = hi * Limb + lo and 0 <= lo < Limb; the operators below are exact    *)
(* for |v| < 2^57, which the inputs of SpecDouble keep.                    *)

Limb == 134217728

Double(n) == <<n \div Limb, n % Limb>>

ToInt(x) == x[1] * Limb + x[2]

Less(x, y) == x[1] < y[1] \/ (x[1] = y[1] /\ x[2] < y[2])

Negate(x) == <<(-x[1]) + ((-x[2]) \div Limb), (-x[2]) % Limb>>

(* the distance of neighbouring doubles at a magnitude of hi limbs: 1 up   *)
(* to 2^53, doubled with every binade above                                *)
Spacing(hi) ==
    IF hi < 67108864 THEN 1
    ELSE IF hi < 134217728 THEN 2
    ELSE IF hi < 268435456 THEN 4
    ELSE IF hi < 536870912 THEN 8
    ELSE 16

(* round to nearest, ties to even, of a value that is not negative *)
RoundMagnitude(x) ==
    LET spacing == Spacing(x[1])
        rest == x[2] % spacing
        down == x[2] - rest
        up == down + spacing
        lo == IF 2 * rest < spacing THEN down
              ELSE IF 2 * rest > spacing THEN up
              ELSE IF (down \div spacing) % 2 = 0 THEN down ELSE up
    IN  <<x[1] + (lo \div Limb), lo % Limb>>

RoundDouble(x) ==
    IF x[1] < 0 THEN Negate(RoundMagnitude(Negate(x))) ELSE RoundMagnitude(x)

(* x + y in the integers *)
ExactAdd(x, y) ==
    <<x[1] + y[1] + ((x[2] + y[2]) \div Limb), (x[2] + y[2]) % Limb>>

(* x + y in binary64: the exact sum, rounded *)
DoubleAdd(x, y) ==
    RoundDouble(<<x[1] + y[1] + ((x[2] + y[2]) \div Limb), (x[2] + y[2]) % Limb>>)

(* x - y in binary64 *)
DoubleSub(x, y) == DoubleAdd(x, Negate(y))

DoubleMax(x, y) == IF Less(x, y) THEN y ELSE x

(* exit_price = 2^53 - 10000 + 1 *)
HugeExitPrice == <<67108863, 134207729>>

DoubleTradeInputs ==
    [type : {"buy", "sell"}, entry_price : {Double(1), Double(2)}]

DoubleExitPriceInputs == {Double(1), Double(2), HugeExitPrice}

(* Challenge(...) of create_challenge for the starter tier, its Float       *)
(* columns as doubles                                                       *)
NewChallenge_Double ==
    LET challenge == NewChallenge(1, "starter", "paypal")
    IN  [challenge EXCEPT
            !.initial_balance = Double(@),
            !.current_balance = Double(@),
            !.highest_balance = Double(@),
            !.daily_start_balance = Double(@),
            !.profit_percent = Double(0)]

(* lines 198-202 for quantity 1.0: the product with 1.0 is the difference  *)
ProfitLoss_Double(trade, exit_price) ==
    IF trade.type = "buy"
    THEN DoubleSub(exit_price, trade.entry_price)
    ELSE DoubleSub(trade.entry_price, exit_price)

(* lines 204-207 *)
SettleTrade_Double(trade, exit_price) ==
    [trade EXCEPT
        !.exit_price = Some(exit_price),
        !.profit_loss = Some(ProfitLoss_Double(trade, exit_price)),
        !.status = "closed"]

(* lines 211-215.  profit_percent is kept as the double                    *)
(* current_balance - initial_balance that line 215 divides by              *)
(* initial_balance and multiplies by 100.                                  *)
UpdateBalance_Double(challenge, profit_loss) ==
    LET current_balance == DoubleAdd(challenge.current_balance, profit_loss)
    IN  [challenge EXCEPT
            !.current_balance = current_balance,
            !.highest_balance = DoubleMax(challenge.highest_balance, current_balance),
            !.profit_percent =
                DoubleSub(current_balance, challenge.initial_balance)]

(* balance * (percent / 100) for the balance 10000.0 of the starter tier:  *)
(* 10000 * (5 / 100) is 500.0 and 10000 * (10 / 100) is 1000.0              *)
PercentOf_Double(balance, percent) == Double((ToInt(balance) * percent) \div 100)

(* lines 220-238.  ((x / 10000.0) * 100) >= 10 exactly when x >= 1000.0:    *)
(* division and product are monotone, 999.0 gives 9.99 and 1000.0 gives    *)
(* 10.0.                                                                   *)
CheckRules_Double(challenge) ==
    LET config == TIER_CONFIG[challenge.tier]
        daily_loss ==
            DoubleSub(challenge.daily_start_balance, challenge.current_balance)
        max_daily_loss ==
            PercentOf_Double(challenge.daily_start_balance,
                             config.max_daily_loss_percent)
        total_loss ==
            DoubleSub(challenge.initial_balance, challenge.current_balance)
        max_total_loss ==
            PercentOf_Double(challenge.initial_balance,
                             config.max_total_loss_percent)
        daily == IF ~Less(daily_loss, max_daily_loss)
                 THEN [challenge EXCEPT
                         !.status = "failed",
                         !.fail_reason = Some(FailReason(
                             config.max_daily_loss_percent, "daily"))]
                 ELSE challenge
        total == IF ~Less(total_loss, max_total_loss)
                 THEN [daily EXCEPT
                         !.status = "failed",
                         !.fail_reason = Some(FailReason(
                             config.max_total_loss_percent, "total"))]
                 ELSE daily
    IN  IF ~Less(challenge.profit_percent,
                 PercentOf_Double(challenge.initial_balance,
                                  config.profit_target_percent))
        THEN [total EXCEPT !.status = "passed"]
        ELSE total

(* lines 210-238 *)
SettleChallenge_Double(challenge, profit_loss) ==
    CheckRules_Double(UpdateBalance_Double(challenge, profit_loss))

InitDouble ==
    /\ challenges = <<NewChallenge_Double>>
    /\ trades = << >>
    /\ reqs = NoReqs
    /\ base44 = NoEntities
    /\ deletion = NoDeletion

(* execute_trade on the challenge, quantity 1.0 *)
ExecuteTrade_Double ==
    /\ Len(trades) < MaxRows
    /\ \E input \in DoubleTradeInputs :
         LET challenge == challenges[1]
             trade_value == input.entry_price
         IN  /\ challenge.status = "active"
             /\ ~Less(challenge.current_balance, trade_value)
             /\ trades' = Append(trades,
                    NewTrade(1, 1, "AAPL", input.type, Double(1),
                             input.entry_price))
    /\ UNCHANGED <<challenges, reqs, base44, deletion>>

(* close_trade *)
CloseTrade_Double ==
    /\ \E trade_id \in DOMAIN trades, exit_price \in DoubleExitPriceInputs :
         LET trade == trades[trade_id]
             settled == SettleTrade_Double(trade, exit_price)
         IN  /\ Less(Double(0), exit_price)
             /\ trade.status = "open"
             /\ trades' = [trades EXCEPT ![trade_id] = settled]
             /\ challenges' = [challenges EXCEPT ![trade.challenge_id] =
                    SettleChallenge_Double(@, settled.profit_loss[1])]
    /\ UNCHANGED <<reqs, base44, deletion>>

NextDouble ==
    \/ ExecuteTrade_Double
    \/ CloseTrade_Double

SpecDouble == InitDouble /\ [][NextDouble]_vars

----------------------------------------------------------------------------
(* Properties of the handlers served one at a time (Spec)                  *)

Terminal == {"passed", "failed"}

(* The step is a close_trade request that answers 200 (such a step closes
   an open trade, which is looked at first) *)
ClosedBy(user_id, trade_id, exit_price) ==
    LET res == close_trade(user_id, trade_id, exit_price)
    IN  /\ trade_id \in DOMAIN trades
        /\ trades[trade_id].status = "open"
        /\ trades'[trade_id].status = "closed"
        /\ res.code = 200
        /\ challenges' = res.challenges
        /\ trades' = res.trades

(* The step is a create_challenge request that answers 201 *)
CreatedBy(input) ==
    LET res == create_challenge(input[1], input[2], input[3])
    IN  /\ Len(challenges') = Len(challenges) + 1
        /\ res.code = 201
        /\ challenges' = res.challenges
        /\ trades' = res.trades

(* The rule conditions, read off a challenge row *)
DailyLossHit(c) ==
    (c.daily_start_balance - c.current_balance) * 100
        >= c.daily_start_balance * TIER_CONFIG[c.tier].max_daily_loss_percent

TotalLossHit(c) ==
    (c.initial_balance - c.current_balance) * 100
        >= c.initial_balance * TIER_CONFIG[c.tier].max_total_loss_percent

ProfitTargetHit(c) ==
    c.profit_percent
        >= TIER_CONFIG[c.tier].profit_target_percent * PercentScale

(* C1: once a challenge is passed or failed, a later successful close_trade
   on one of its trades leaves its status, fail_reason, current_balance,
   highest_balance and profit_percent as they were. *)
C1_TerminalChallengeFrozen ==
    [][\A user_id \in Users, trade_id \in TradeIds,
         exit_price \in ExitPriceInputs :
          ClosedBy(user_id, trade_id, exit_price) =>
              LET cid == trades[trade_id].challenge_id
                  before == challenges[cid]
                  after == challenges'[cid]
              IN  before.status \in Terminal =>
                      /\ after.status = before.status
                      /\ after.fail_reason = before.fail_reason
                      /\ after.current_balance = before.current_balance
                      /\ after.highest_balance = before.highest_balance
                      /\ after.profit_percent = before.profit_percent]_vars

(* C2: a successful close_trade on a trade of a passed or failed challenge
   still adds the pnl to current_balance and applies the daily-loss,
   total-loss and profit-target checks in that order. *)
C2_SettlementRegardlessOfStatus ==
    [][\A user_id \in Users, trade_id \in TradeIds,
         exit_price \in ExitPriceInputs :
          ClosedBy(user_id, trade_id, exit_price) =>
              LET cid == trades[trade_id].challenge_id
                  before == challenges[cid]
                  after == challenges'[cid]
                  pnl == trades'[trade_id].profit_loss[1]
                  config == TIER_CONFIG[before.tier]
              IN  before.status \in Terminal =>
                  /\ after.current_balance = before.current_balance + pnl
                  /\ after.status =
                        IF ProfitTargetHit(after) THEN "passed"
                        ELSE IF TotalLossHit(after) \/ DailyLossHit(after)
                             THEN "failed"
                        ELSE before.status
                  /\ after.fail_reason =
                        IF TotalLossHit(after)
                        THEN Some("Exceeded "
                                  \o ToString(config.max_total_loss_percent)
                                  \o "% total loss limit")
                        ELSE IF DailyLossHit(after)
                        THEN Some("Exceeded "
                                  \o ToString(config.max_daily_loss_percent)
                                  \o "% daily loss limit")
                        ELSE before.fail_reason]_vars

(* A failed challenge whose balance a later settlement took above its
   initial balance *)
C2_Witness ==
    \E c \in DOMAIN challenges :
        /\ challenges[c].status = "failed"
        /\ challenges[c].current_balance > challenges[c].initial_balance

(* C3: after a successful close_trade whose resulting profit_percent is at
   least the tier's profit target, the challenge is passed, whatever its
   status was before. *)
C3_ProfitTargetWins ==
    [][\A user_id \in Users, trade_id \in TradeIds,
         exit_price \in ExitPriceInputs :
          ClosedBy(user_id, trade_id, exit_price) =>
              LET after == challenges'[trades[trade_id].challenge_id]
              IN  ProfitTargetHit(after) => after.status = "passed"]_vars

(* A challenge that failed in an earlier settlement and is now passed *)
C3_Witness ==
    \E c \in DOMAIN challenges :
        /\ challenges[c].status = "passed"
        /\ challenges[c].fail_reason # None

(* C5: after a successful close_trade, a daily loss at or above the limit,
   with neither the total-loss nor the profit-target condition, leaves the
   challenge failed with the daily-loss reason. *)
C5_DailyLossInclusive ==
    [][\A user_id \in Users, trade_id \in TradeIds,
         exit_price \in ExitPriceInputs :
          ClosedBy(user_id, trade_id, exit_price) =>
              LET after == challenges'[trades[trade_id].challenge_id]
                  percent == TIER_CONFIG[after.tier].max_daily_loss_percent
              IN  (/\ (after.daily_start_balance - after.current_balance) * 100
                         >= after.daily_start_balance * percent
                   /\ ~TotalLossHit(after)
                   /\ ~ProfitTargetHit(after)) =>
                      /\ after.status = "failed"
                      /\ after.fail_reason =
                            Some("Exceeded " \o ToString(percent)
                                 \o "% daily loss limit")]_vars

(* The starter challenge after a pnl of exactly -500 from 10000 *)
C5_Witness ==
    \E c \in DOMAIN challenges :
        /\ challenges[c].tier = "starter"
        /\ challenges[c].daily_start_balance = 10000
        /\ challenges[c].current_balance = 9500
        /\ challenges[c].status = "failed"
        /\ challenges[c].fail_reason = Some("Exceeded 5% daily loss limit")

(* C6: after a successful close_trade, a total loss at or above the limit
   leaves the challenge failed with the total-loss reason, also when the
   daily-loss condition holds in the same call. *)
C6_TotalLossOverwrites ==
    [][\A user_id \in Users, trade_id \in TradeIds,
         exit_price \in ExitPriceInputs :
          ClosedBy(user_id, trade_id, exit_price) =>
              LET after == challenges'[trades[trade_id].challenge_id]
                  percent == TIER_CONFIG[after.tier].max_total_loss_percent
              IN  (after.initial_balance - after.current_balance) * 100
                      >= after.initial_balance * percent =>
                      /\ after.status = "failed"
                      /\ after.fail_reason =
                            Some("Exceeded " \o ToString(percent)
                                 \o "% total loss limit")]_vars

(* A challenge exactly at its total-loss limit, where the daily-loss
   condition holds too, failed with the total-loss reason *)
C6_Witness ==
    \E c \in DOMAIN challenges :
        /\ (challenges[c].initial_balance - challenges[c].current_balance) * 10
              = challenges[c].initial_balance
        /\ DailyLossHit(challenges[c])
        /\ challenges[c].status = "failed"
        /\ challenges[c].fail_reason = Some("Exceeded 10% total loss limit")

(* C7: a successful create_challenge yields, for each tier, a challenge
   whose current, highest, daily-start and initial balances all equal the
   tier's initial balance, with status active. *)
C7_FreshChallenge ==
    [][\A input \in ChallengeInputs :
          CreatedBy(input) =>
              LET created == challenges'[Len(challenges')]
                  balance ==
                      CASE Lower(input[2]) = "starter" -> 10000
                        [] Lower(input[2]) = "pro" -> 50000
                        [] Lower(input[2]) = "elite" -> 100000
              IN  /\ Len(challenges') = Len(challenges) + 1
                  /\ created.tier = Lower(input[2])
                  /\ created.initial_balance = balance
                  /\ created.current_balance = balance
                  /\ created.highest_balance = balance
                  /\ created.daily_start_balance = balance
                  /\ created.status = "active"]_vars

(* Two challenges of different tiers have been created *)
C7_Witness ==
    /\ Len(challenges) = 2
    /\ challenges[1].tier # challenges[2].tier
    /\ \A c \in DOMAIN challenges :
          /\ challenges[c].status = "active"
          /\ challenges[c].current_balance = challenges[c].initial_balance

(* C8: the pnl of a successful close_trade is (exit - entry) * quantity for
   a buy and (entry - exit) * quantity for a sell; it is the trade's
   profit_loss and the amount added to the challenge's current_balance. *)
C8_RealizedPnl ==
    [][\A user_id \in Users, trade_id \in TradeIds,
         exit_price \in ExitPriceInputs :
          ClosedBy(user_id, trade_id, exit_price) =>
              LET trade == trades[trade_id]
                  cid == trade.challenge_id
                  pnl == CASE trade.type = "buy" ->
                                (exit_price - trade.entry_price) * trade.quantity
                           [] trade.type = "sell" ->
                                (trade.entry_price - exit_price) * trade.quantity
              IN  /\ trades'[trade_id].profit_loss = Some(pnl)
                  /\ challenges'[cid].current_balance
                        = challenges[cid].current_balance + pnl]_vars

(* A sell of 100 at 100 closed at 50 made 5000, a buy of 10 at 100 closed at
   50 lost 500 *)
C8_Witness ==
    /\ \E t \in DOMAIN trades :
          /\ trades[t].type = "sell"
          /\ trades[t].exit_price = Some(50)
          /\ trades[t].profit_loss = Some(5000)
    /\ \E t \in DOMAIN trades :
          /\ trades[t].type = "buy"
          /\ trades[t].exit_price = Some(50)
          /\ trades[t].profit_loss = Some(-500)

(* C9: every challenge has highest_balance >= current_balance. *)
C9_HighestAboveCurrent ==
    \A c \in DOMAIN challenges :
        challenges[c].highest_balance >= challenges[c].current_balance

(* A balance that rose above the initial balance and then fell *)
C9_Witness ==
    \E c \in DOMAIN challenges :
        /\ challenges[c].highest_balance > challenges[c].initial_balance
        /\ challenges[c].current_balance < challenges[c].highest_balance

(* C10: highest_balance never decreases. *)
C10_HighestMonotone ==
    [][\A c \in DOMAIN challenges :
          challenges'[c].highest_balance >= challenges[c].highest_balance]_vars

(* A settlement with a loss kept the highest balance *)
C10_Witness ==
    \E c \in DOMAIN challenges :
        /\ challenges[c].current_balance < challenges[c].initial_balance
        /\ challenges[c].highest_balance = challenges[c].initial_balance

(* C11: every challenge's profit_percent is
   (current_balance - initial_balance) / initial_balance * 100 for its
   current balances (in units of 1/PercentScale percent). *)
C11_ProfitPercentDerived ==
    \A c \in DOMAIN challenges :
        challenges[c].profit_percent * challenges[c].initial_balance
            = (challenges[c].current_balance - challenges[c].initial_balance)
                * 100 * PercentScale

(* A starter challenge settled to 9500 holds -5 percent, next to a
   challenge that has not been settled and holds 0 *)
C11_Witness ==
    /\ \E c \in DOMAIN challenges :
          /\ challenges[c].current_balance = 9500
          /\ challenges[c].initial_balance = 10000
          /\ challenges[c].profit_percent = -5 * PercentScale
    /\ \E c \in DOMAIN challenges :
          /\ challenges[c].current_balance = challenges[c].initial_balance
          /\ challenges[c].profit_percent = 0

(* C12: close_trade by the owner on a trade that is already closed answers
   "Trade is already closed" for a valid exit price, and for every exit
   price leaves the challenges and the trades as they are. *)
C12_SecondCloseRefused ==
    \A t \in DOMAIN trades :
        trades[t].status = "closed" =>
            \A exit_price \in ExitPriceInputs :
                LET res == close_trade(trades[t].user_id, t, exit_price)
                IN  /\ res.challenges = challenges
                    /\ res.trades = trades
                    /\ res.code = 400
                    /\ exit_price > 0 => res.msg = "Trade is already closed"

(* A trade closed at 50 with its pnl in the challenge's balance; a second
   close at 200 would settle it differently *)
C12_Witness ==
    \E t \in DOMAIN trades :
        /\ trades[t].status = "closed"
        /\ trades[t].exit_price = Some(50)
        /\ challenges[trades[t].challenge_id].current_balance
              = challenges[trades[t].challenge_id].initial_balance
                  + trades[t].profit_loss[1]

(* C14: a trade's status only moves from open to closed, and once a trade
   is closed its status, exit_price and profit_loss never change again. *)
C14_ClosedTradeFrozen ==
    [][\A t \in DOMAIN trades :
          /\ t \in DOMAIN trades'
          /\ trades'[t].status # trades[t].status
                => trades[t].status = "open" /\ trades'[t].status = "closed"
          /\ trades[t].status = "closed"
                => /\ trades'[t].exit_price = trades[t].exit_price
                   /\ trades'[t].profit_loss = trades[t].profit_loss]_vars

(* Two closed trades with different exit prices: one of them was closed
   while the other was already closed *)
C14_Witness ==
    \E t1, t2 \in DOMAIN trades :
        /\ trades[t1].status = "closed"
        /\ trades[t2].status = "closed"
        /\ trades[t1].exit_price = Some(50)
        /\ trades[t2].exit_price = Some(200)

(* C15: execute_trade on the caller's active challenge with
   quantity * entry_price above current_balance answers "Insufficient
   balance" and leaves challenges and trades as they are; with
   quantity * entry_price up to and including current_balance it is
   accepted and adds the trade. *)
C15_InsufficientBalance ==
    \A c \in DOMAIN challenges :
        challenges[c].status = "active" /\ challenges[c].current_balance > 0 =>
            LET balance == challenges[c].current_balance
                user_id == challenges[c].user_id
            IN  \A order \in {<<10, 100>>, <<100, 100>>, <<1000, 100>>,
                               <<1, balance>>, <<1, balance + 1>>} :
                    LET res == execute_trade(user_id, c, "aapl", "buy",
                                             order[1], order[2])
                    IN  IF order[1] * order[2] > balance
                        THEN /\ res.code = 400
                             /\ res.msg = "Insufficient balance"
                             /\ res.challenges = challenges
                             /\ res.trades = trades
                        ELSE /\ res.code = 201
                             /\ res.challenges = challenges
                             /\ res.trades = Append(trades,
                                    NewTrade(c, user_id, "AAPL", "buy",
                                             order[1], order[2]))

(* An open trade worth the whole balance of its active challenge *)
C15_Witness ==
    \E t \in DOMAIN trades :
        LET challenge == challenges[trades[t].challenge_id]
        IN  /\ trades[t].status = "open"
            /\ challenge.status = "active"
            /\ trades[t].quantity * trades[t].entry_price
                  = challenge.current_balance

(* C16: execute_trade on the caller's passed or failed challenge answers
   "Challenge is not active" and adds no trade, and every step that adds a
   trade adds it to a challenge whose status is active. *)
C16_TradesOnActiveOnly ==
    /\ [](\A c \in DOMAIN challenges :
            challenges[c].status \in Terminal =>
                \A order \in {<<"buy", 10>>, <<"sell", 100>>, <<"buy", 1>>} :
                    LET res == execute_trade(challenges[c].user_id, c, "aapl",
                                             order[1], order[2], 100)
                    IN  /\ res.code = 400
                        /\ res.msg = "Challenge is not active"
                        /\ res.challenges = challenges
                        /\ res.trades = trades)
    /\ [][\A t \in DOMAIN trades' \ DOMAIN trades :
            /\ trades'[t].challenge_id \in DOMAIN challenges
            /\ challenges[trades'[t].challenge_id].status = "active"]_vars

(* A failed challenge that still has an open trade, taken while it was
   active *)
C16_Witness ==
    \E t \in DOMAIN trades :
        /\ trades[t].status = "open"
        /\ challenges[trades[t].challenge_id].status = "failed"

(* C18: close_trade with an exit price of zero or below answers "Invalid
   exit price" and leaves the trades and the challenges as they are,
   whoever calls it and whatever trade it names. *)
C18_InvalidExitPrice ==
    \A user_id \in Users, t \in TradeIds, exit_price \in {-50, 0} :
        LET res == close_trade(user_id, t, exit_price)
        IN  /\ res.code = 400
            /\ res.msg = "Invalid exit price"
            /\ res.challenges = challenges
            /\ res.trades = trades

(* An open trade that its owner can close at 50 and cannot close at 0 *)
C18_Witness ==
    \E t \in DOMAIN trades :
        /\ trades[t].status = "open"
        /\ trades[t].exit_price = None
        /\ trades[t].profit_loss = None
        /\ close_trade(trades[t].user_id, t, 50).code = 200
        /\ close_trade(trades[t].user_id, t, 0).code = 400

(* C19: no step changes a trade's challenge, owner, symbol, side, quantity
   or entry_price, and the only step that changes a trade at all is a
   successful close_trade of that trade. *)
C19_TradeImmutable ==
    [][\A t \in DOMAIN trades :
          /\ t \in DOMAIN trades'
          /\ trades'[t].challenge_id = trades[t].challenge_id
          /\ trades'[t].user_id = trades[t].user_id
          /\ trades'[t].symbol = trades[t].symbol
          /\ trades'[t].type = trades[t].type
          /\ trades'[t].quantity = trades[t].quantity
          /\ trades'[t].entry_price = trades[t].entry_price
          /\ trades'[t] # trades[t]
                => \E exit_price \in ExitPriceInputs :
                       ClosedBy(trades[t].user_id, t, exit_price)]_vars

(* A sell of 100 at 100 closed at 200, next to a trade left open *)
C19_Witness ==
    \E t1, t2 \in DOMAIN trades :
        /\ trades[t1].status = "closed"
        /\ trades[t1].type = "sell"
        /\ trades[t1].quantity = 100
        /\ trades[t1].entry_price = 100
        /\ trades[t1].exit_price = Some(200)
        /\ trades[t2].status = "open"

(* C20: a successful close_trade after which none of the daily-loss,
   total-loss and profit-target conditions holds leaves the challenge's
   status and fail_reason as they were. *)
C20_NoRuleNoStatusChange ==
    [][\A user_id \in Users, t \in DOMAIN trades,
          exit_price \in ExitPriceInputs :
          ClosedBy(user_id, t, exit_price) =>
              LET c == trades[t].challenge_id
              IN  (/\ ~DailyLossHit(challenges'[c])
                   /\ ~TotalLossHit(challenges'[c])
                   /\ ~ProfitTargetHit(challenges'[c]))
                  => /\ challenges'[c].status = challenges[c].status
                     /\ challenges'[c].fail_reason
                          = challenges[c].fail_reason]_vars

(* A challenge failed on the daily limit and then settled back above its
   initial balance, short of the target: it is still failed *)
C20_Witness ==
    \E c \in DOMAIN challenges :
        /\ challenges[c].status = "failed"
        /\ challenges[c].fail_reason = Some("Exceeded 5% daily loss limit")
        /\ challenges[c].current_balance > challenges[c].initial_balance
        /\ ~ProfitTargetHit(challenges[c])

(* C22: create_challenge with a tier that is not a key of TIER_CONFIG
   (after lower-casing) answers "Invalid tier" and adds no challenge; a tier
   that is a key is accepted. *)
C22_UnknownTier ==
    \A user_id \in Users, tier_input \in {"vip", "gold", "", "PRO", "elite"} :
        LET res == create_challenge(user_id, tier_input, "paypal")
        IN  IF Lower(tier_input) \in DOMAIN TIER_CONFIG
            THEN /\ res.code = 201
                 /\ Len(res.challenges) = Len(challenges) + 1
            ELSE /\ res.code = 400
                 /\ res.msg = "Invalid tier. Must be starter, pro, or elite"
                 /\ res.challenges = challenges
                 /\ res.trades = trades

(* Challenges of the pro and the elite tier exist (the pro one was asked for
   as "PRO"), and a request for the vip tier is refused *)
C22_Witness ==
    /\ \E c \in DOMAIN challenges : challenges[c].tier = "pro"
    /\ \E c \in DOMAIN challenges : challenges[c].tier = "elite"
    /\ create_challenge(2, "vip", "paypal").code = 400

(* C23: execute_trade, accepted or refused, leaves every challenge as it
   is, and the only step that changes a challenge is a successful
   close_trade of one of its trades. *)
C23_OnlyCloseMovesBalance ==
    /\ [](\A user_id \in Users, c \in ChallengeIds, input \in TradeInputs :
            execute_trade(user_id, c, input[1], input[2], input[3],
                          input[4]).challenges = challenges)
    /\ [][\A c \in DOMAIN challenges :
            /\ c \in DOMAIN challenges'
            /\ challenges'[c] # challenges[c] =>
                  \E t \in DOMAIN trades, exit_price \in ExitPriceInputs :
                      /\ trades[t].challenge_id = c
                      /\ ClosedBy(trades[t].user_id, t, exit_price)]_vars

(* Two open trades worth 10000 each on a starter challenge that still holds
   its 10000: nothing was deducted or reserved *)
C23_Witness ==
    \E c \in DOMAIN challenges, t1, t2 \in DOMAIN trades :
        /\ t1 # t2
        /\ trades[t1].challenge_id = c /\ trades[t1].status = "open"
        /\ trades[t2].challenge_id = c /\ trades[t2].status = "open"
        /\ trades[t1].quantity * trades[t1].entry_price = 10000
        /\ trades[t2].quantity * trades[t2].entry_price = 10000
        /\ challenges[c] = NewChallenge(challenges[c].user_id, "starter",
                                        challenges[c].payment_method)

(* C24: every challenge's tier is a key of TIER_CONFIG, so the lookup of
   line 218 finds a configuration in every settlement. *)
C24_TierConfigured ==
    \A c \in DOMAIN challenges : challenges[c].tier \in DOMAIN TIER_CONFIG

(* A trade was settled on a challenge that was asked for as "PRO" *)
C24_Witness ==
    \E t \in DOMAIN trades :
        /\ trades[t].status = "closed"
        /\ challenges[trades[t].challenge_id].tier = "pro"
        /\ challenges[trades[t].challenge_id].current_balance # 50000

(* C26: no step changes a challenge's daily_start_balance or
   initial_balance, and in every state daily_start_balance equals
   initial_balance. *)
C26_DailyStartFixed ==
    /\ [](\A c \in DOMAIN challenges :
            challenges[c].daily_start_balance = challenges[c].initial_balance)
    /\ [][\A c \in DOMAIN challenges :
            /\ c \in DOMAIN challenges'
            /\ challenges'[c].daily_start_balance
                  = challenges[c].daily_start_balance
            /\ challenges'[c].initial_balance
                  = challenges[c].initial_balance]_vars

(* A starter challenge settled up to 11000 still starts its day at 10000 *)
C26_Witness ==
    \E c \in DOMAIN challenges :
        /\ challenges[c].current_balance = 11000
        /\ challenges[c].daily_start_balance = 10000
        /\ challenges[c].initial_balance = 10000

(* C27: a challenge that is passed or failed is passed or failed after
   every step: its status never returns to active. *)
C27_NeverActiveAgain ==
    [][\A c \in DOMAIN challenges :
          challenges[c].status \in Terminal =>
              /\ c \in DOMAIN challenges'
              /\ challenges'[c].status \in Terminal]_vars

(* A failed challenge on which a second trade was settled afterwards, back
   to its initial balance and beyond *)
C27_Witness ==
    \E c \in DOMAIN challenges, t1, t2 \in DOMAIN trades :
        /\ t1 # t2
        /\ trades[t1].challenge_id = c /\ trades[t1].status = "closed"
        /\ trades[t2].challenge_id = c /\ trades[t2].status = "closed"
        /\ challenges[c].status = "failed"
        /\ challenges[c].current_balance >= challenges[c].initial_balance

(* C29: close_trade on another user's trade answers "Trade not found" and
   execute_trade on another user's challenge answers "Challenge not found";
   both leave the challenges and the trades as they are. *)
C29_OwnRecordsOnly ==
    /\ \A t \in DOMAIN trades :
         \A user_id \in Users \ {trades[t].user_id}, exit_price \in {50, 200} :
           LET res == close_trade(user_id, t, exit_price)
           IN  /\ res.code = 404
               /\ res.msg = "Trade not found"
               /\ res.challenges = challenges
               /\ res.trades = trades
    /\ \A c \in DOMAIN challenges :
         \A user_id \in Users \ {challenges[c].user_id},
            order \in {<<"buy", 10>>, <<"SELL", 100>>} :
           LET res == execute_trade(user_id, c, "aapl", order[1], order[2], 100)
           IN  /\ res.code = 404
               /\ res.msg = "Challenge not found"
               /\ res.challenges = challenges
               /\ res.trades = trades

(* User 1 has an open trade on an active challenge while user 2 has a
   challenge of their own: user 2 could trade, but not on user 1's records *)
C29_Witness ==
    \E t \in DOMAIN trades, c2 \in DOMAIN challenges :
        /\ trades[t].user_id = 1
        /\ trades[t].status = "open"
        /\ challenges[trades[t].challenge_id].status = "active"
        /\ challenges[c2].user_id = 2
        /\ execute_trade(2, c2, "aapl", "buy", 10, 100).code = 201
        /\ close_trade(2, t, 50).code = 404

----------------------------------------------------------------------------
(* Properties of the handlers served concurrently (SpecConc)               *)

ClosedTradesOf(c) ==
    {t \in DOMAIN trades :
        trades[t].challenge_id = c /\ trades[t].status = "closed"}

(* C4: once two concurrent close_trade calls on two different open trades
   of one challenge have both returned success, current_balance is the
   balance before the calls plus the sum of both pnls. *)
C4_NoLostUpdate ==
    \A c \in DOMAIN challenges :
        \A t1, t2 \in ClosedTradesOf(c) :
            (/\ t1 # t2
             /\ ClosedTradesOf(c) = {t1, t2}
             /\ \A r \in Workers : reqs[r].pc = "idle") =>
                challenges[c].current_balance
                    = challenges[c].initial_balance
                        + trades[t1].profit_loss[1]
                        + trades[t2].profit_loss[1]

(* C13: a trade is settled once: a close_trade request commits its
   settlement (exit_price, profit_loss, the pnl in current_balance) only
   over a trade that is still open in the database. *)
C13_SettledOnce ==
    [][\A r \in Workers :
          CommitCloseTrade(r) => trades[reqs[r].trade_id].status = "open"]_vars

(* C17: an execute_trade request commits its trade only when, in the
   database at that moment, the challenge is active and
   quantity * entry_price is at most its current_balance. *)
C17_OpenCheckedAtCommit ==
    [][\A r \in Workers :
          CommitExecuteTrade(r) =>
              LET trade == reqs[r].trade
                  challenge == challenges[trade.challenge_id]
              IN  /\ challenge.status = "active"
                  /\ trade.quantity * trade.entry_price
                        <= challenge.current_balance]_vars

----------------------------------------------------------------------------
(* Properties of requests in progress on two challenges                    *)
(* (SpecTwoChallenges)                                                      *)

(* C21: a close_trade or execute_trade on challenge A leaves every other
   challenge and the trades of every other challenge as they are, and a
   request in progress on A can always take its next step while a request
   is in progress on another challenge B. *)
C21_ChallengesIndependent ==
    /\ [](\A r, q \in Workers :
            (/\ reqs[r].pc # "idle"
             /\ reqs[q].pc # "idle"
             /\ reqs[q].trade.challenge_id # reqs[r].trade.challenge_id) =>
                /\ reqs[r].pc = "trade_added" => ENABLED CommitExecuteTrade(r)
                /\ reqs[r].pc = "trade_loaded" => ENABLED LoadChallenge(r)
                /\ reqs[r].pc = "challenge_loaded"
                      => ENABLED CommitCloseTrade(r))
    /\ [][/\ \A r \in Workers :
              /\ reqs[r].pc = "challenge_loaded" /\ reqs'[r] # reqs[r] =>
                    LET a == reqs[r].trade.challenge_id
                    IN  /\ \A c \in DOMAIN challenges \ {a} :
                              challenges'[c] = challenges[c]
                        /\ \A t \in DOMAIN trades :
                              trades[t].challenge_id # a
                                  => trades'[t] = trades[t]
              /\ reqs[r].pc = "trade_added" /\ reqs'[r] # reqs[r] =>
                    /\ challenges' = challenges
                    /\ \A t \in DOMAIN trades : trades'[t] = trades[t]
          /\ (\A r \in Workers :
                 reqs[r].pc \in {"challenge_loaded", "trade_added"}
                     => reqs'[r] = reqs[r])
                => challenges' = challenges /\ trades' = trades]_vars

(* A trade of challenge 1 has been settled with a loss while a close_trade
   on challenge 2, still untouched, is in progress *)
C21_Witness ==
    \E r \in Workers, t \in DOMAIN trades :
        /\ reqs[r].pc = "challenge_loaded"
        /\ reqs[r].trade.challenge_id = 2
        /\ trades[t].challenge_id = 1
        /\ trades[t].status = "closed"
        /\ challenges[1].current_balance = 9500
        /\ challenges[2] = NewChallenge(1, "starter", "paypal")

----------------------------------------------------------------------------
(* Properties of the user deletion service (SpecDelete)                    *)

Issued(kind, id) ==
    \E i \in DOMAIN deletion.issued : deletion.issued[i] = Deletion(kind, id)

(* C30: delete_user issues the deletion of a challenge only after it has
   issued a deletion for every trade of that challenge, the deletion of a
   post only after a deletion for every challenge of the user, and nothing
   after the deletion of the user; for a caller who is not an admin it
   issues nothing and answers 403. *)
C30_DeletionOrdered ==
    [][/\ \A i \in DOMAIN deletion'.issued \ DOMAIN deletion.issued :
             LET d == deletion'.issued[i]
             IN  /\ ~\E id \in {"u1", "u2", "u9"} : Issued("user", id)
                 /\ d.kind = "challenge" =>
                       \A t \in base44.trades :
                           t.challenge_id = d.id => Issued("trade", t.id)
                 /\ d.kind = "post" =>
                       \A c \in base44.challenges :
                           c.user_email = deletion.user_email
                               => Issued("challenge", c.id)
       /\ ~deletion'.admin =>
             /\ deletion'.issued = << >>
             /\ deletion'.pc = "done" => deletion'.code = 403]_vars

----------------------------------------------------------------------------
(* Properties of the settlement in double arithmetic (SpecDouble)          *)

RECURSIVE SumProfitLoss(_, _)
(* The sum, in the integers, of profit_loss over the closed trades of
   challenge c among the first n trades *)
SumProfitLoss(c, n) ==
    IF n = 0
    THEN Double(0)
    ELSE ExactAdd(SumProfitLoss(c, n - 1),
                  IF trades[n].challenge_id = c /\ trades[n].status = "closed"
                  THEN trades[n].profit_loss[1]
                  ELSE Double(0))

(* C25: with requests served one at a time, every challenge's
   current_balance is its initial_balance plus the sum of profit_loss over
   its closed trades. *)
C25_BalanceIsSumOfPnl ==
    \A c \in DOMAIN challenges :
        challenges[c].current_balance
            = ExactAdd(challenges[c].initial_balance,
                       SumProfitLoss(c, Len(trades)))

(* C28: for any two open trades of the same challenge and any two exit
   prices, closing the first and then the second leaves the challenge with
   the same current_balance and profit_percent as closing the second and
   then the first. *)
C28_CloseOrderIrrelevant ==
    \A t1, t2 \in DOMAIN trades :
        \A exit1, exit2 \in DoubleExitPriceInputs :
            (/\ t1 # t2
             /\ trades[t1].status = "open"
             /\ trades[t2].status = "open"
             /\ trades[t1].challenge_id = trades[t2].challenge_id) =>
                LET challenge == challenges[trades[t1].challenge_id]
                    pnl1 == ProfitLoss_Double(trades[t1], exit1)
                    pnl2 == ProfitLoss_Double(trades[t2], exit2)
                    first == SettleChallenge_Double(
                                 SettleChallenge_Double(challenge, pnl1), pnl2)
                    second == SettleChallenge_Double(
                                  SettleChallenge_Double(challenge, pnl2), pnl1)
                IN  /\ first.current_balance = second.current_balance
                    /\ first.profit_percent = second.profit_percent

====
